---------------------------- MODULE Spec2Model ----------------------------
(* A model of mesh_functions.py: a graph built from the face table of a   *)
(* surface mesh, a scalar "map_val" bound to every node, and the region,  *)
(* gradient-ascent and smoothing operations over that graph.              *)
(*                                                                        *)
(* Python objects are modelled by value.  A networkx graph is a record    *)
(*   nodes : the node ids in insertion order (the order of G.nodes),      *)
(*   adj   : node id -> its neighbours in insertion order (G.adj[n]),     *)
(*   val   : node id -> the node's "map_val" attribute.                   *)
(* A Python dict is a sequence of <<key, value>> pairs with distinct      *)
(* keys, in insertion order.  A float is a record: tag "nan", tag "num"   *)
(* with the exact fraction n/d in lowest terms, or tag "unbound" for a    *)
(* node that has no "map_val" attribute at all.  A call that raises       *)
(* yields the name of the exception instead of a value.                   *)
EXTENDS Integers, Sequences, FiniteSets

VARIABLES G, nodes, op, arg, status, ret

vars == <<G, nodes, op, arg, status, ret>>

-----------------------------------------------------------------------------
(* Bounds of the model. *)

\* a face table has at most MaxRows rows
MaxRows == 2
\* a node list passed by the caller has at most MaxLen elements
MaxLen == 2
\* stepsize and neighbourhood_size are at most MaxStep
MaxStep == 2
\* n_its is at most MaxIts
MaxIts == 2
\* kernel_size is at most MaxKernel
MaxKernel == 1

\* the vertex ids of the mesh
Vertices == {0, 1, 2}

\* the lengths of a face row: an edge pair or a triangle
RowLens == {2, 3}

-----------------------------------------------------------------------------
(* Floats. *)

NaN == [tag |-> "nan", n |-> 0, d |-> 1]
Unbound == [tag |-> "unbound", n |-> 0, d |-> 1]
Num(a) == [tag |-> "num", n |-> a, d |-> 1]

\* the values a map file supplies: not-a-number and two real numbers
MapVals == {NaN, Num(1), Num(2)}

isnan(v) == v.tag = "nan"

RECURSIVE Gcd(_, _)
Gcd(a, b) == IF b = 0 THEN a ELSE Gcd(b, a % b)

Frac(a, b) ==
    LET g == Gcd(IF a < 0 THEN -a ELSE a, b)
    IN  [tag |-> "num", n |-> a \div g, d |-> b \div g]

\* a < b and a > b on floats: every comparison with not-a-number is false
FloatLt(a, b) == a.tag = "num" /\ b.tag = "num" /\ a.n * b.d < b.n * a.d
FloatGt(a, b) == FloatLt(b, a)

-----------------------------------------------------------------------------
(* Sequences and dicts. *)

Range(s) == {s[i] : i \in 1..Len(s)}

RECURSIVE SeqsUpTo(_, _)
SeqsUpTo(S, n) ==
    IF n = 0 THEN {<<>>}
    ELSE LET shorter == SeqsUpTo(S, n - 1)
         IN  shorter \cup {Append(s, x) : s \in {t \in shorter : Len(t) = n - 1}, x \in S}

Keys(d) == {d[i][1] : i \in 1..Len(d)}
KeyList(d) == [i \in 1..Len(d) |-> d[i][1]]
ValueList(d) == [i \in 1..Len(d) |-> d[i][2]]

\* d[k] = v
DictSet(d, k, v) ==
    IF k \in Keys(d)
    THEN [i \in 1..Len(d) |-> IF d[i][1] = k THEN <<k, v>> ELSE d[i]]
    ELSE Append(d, <<k, v>>)

\* d.update(e)
RECURSIVE DictUpdate(_, _)
DictUpdate(d, e) ==
    IF e = <<>> THEN d
    ELSE DictUpdate(DictSet(d, e[1][1], e[1][2]), Tail(e))

\* the ascending list of a set of ints
RECURSIVE SortedList(_)
SortedList(S) ==
    IF S = {} THEN <<>>
    ELSE LET m == CHOOSE x \in S : \A y \in S : x <= y
         IN  <<m>> \o SortedList(S \ {m})

-----------------------------------------------------------------------------
(* Graphs. *)

EmptyGraph == [nodes |-> <<>>, adj |-> <<>>, val |-> <<>>]

NodeSet(g) == Range(g.nodes)

HasNode(g, n) == n \in NodeSet(g)

\* G.add_node(n): a node that is already there is left as it is
AddNode(g, n) ==
    IF HasNode(g, n) THEN g
    ELSE [nodes |-> Append(g.nodes, n),
          adj |-> [m \in NodeSet(g) \cup {n} |-> IF m = n THEN <<>> ELSE g.adj[m]],
          val |-> [m \in NodeSet(g) \cup {n} |-> IF m = n THEN Unbound ELSE g.val[m]]]

\* G.add_edge(u, v): _adj[u][v] = ..., _adj[v][u] = ...
AddEdge(g, u, v) ==
    LET h == AddNode(AddNode(g, u), v)
        au == IF v \in Range(h.adj[u]) THEN h.adj[u] ELSE Append(h.adj[u], v)
        h1 == [h EXCEPT !.adj[u] = au]
        av == IF u \in Range(h1.adj[v]) THEN h1.adj[v] ELSE Append(h1.adj[v], u)
    IN  [h1 EXCEPT !.adj[v] = av]

RECURSIVE AddNodesFrom(_, _)
AddNodesFrom(g, ns) ==
    IF ns = <<>> THEN g ELSE AddNodesFrom(AddNode(g, Head(ns)), Tail(ns))

RECURSIVE AddEdgesFrom(_, _)
AddEdgesFrom(g, es) ==
    IF es = <<>> THEN g
    ELSE AddEdgesFrom(AddEdge(g, es[1][1], es[1][2]), Tail(es))

\* list(itertools.combinations(row, 2)): the position pairs i < j in
\* lexicographic order
RECURSIVE CombinationsFrom(_, _, _)
CombinationsFrom(row, i, j) ==
    IF i >= Len(row) THEN <<>>
    ELSE IF j > Len(row) THEN CombinationsFrom(row, i + 1, i + 2)
    ELSE <<<<row[i], row[j]>>>> \o CombinationsFrom(row, i, j + 1)

\* a builder that joins only the vertices next to each other in a row
Combinations2_adjacent(row) == [i \in 1..(Len(row) - 1) |-> <<row[i], row[i + 1]>>]

Combinations2(row) == CombinationsFrom(row, 1, 2)

\* np.unique(mesh_faces): the sorted distinct vertex ids of the face table
load_surface_info(mesh_faces) ==
    SortedList(UNION {Range(mesh_faces[i]) : i \in 1..Len(mesh_faces)})

RECURSIVE AddFaces(_, _)
AddFaces(g, mesh_faces) ==
    IF mesh_faces = <<>> THEN g
    ELSE AddFaces(AddEdgesFrom(g, Combinations2(Head(mesh_faces))), Tail(mesh_faces))

nifti_to_graph(mesh_faces, nodes_to_add) ==
    AddFaces(AddNodesFrom(EmptyGraph, nodes_to_add), mesh_faces)

\* zip(G.nodes, map_data[nodes_to_map]) and nx.set_node_attributes
add_map_to_surface(g, nodes_to_map, map_data) ==
    [g EXCEPT !.val = [m \in NodeSet(g) |->
        LET i == CHOOSE i \in 1..Len(g.nodes) : g.nodes[i] = m
        IN  IF i <= Len(nodes_to_map) THEN map_data[nodes_to_map[i]] ELSE g.val[m]]]

-----------------------------------------------------------------------------
(* The Neighborhood Engine. *)

\* the <<neighbour, map_val>> pairs of one seed, in the order of G.adj[node]
AdjPairs(g, node) ==
    [j \in 1..Len(g.adj[node]) |-> <<g.adj[node][j], g.val[g.adj[node][j]]>>]

\* the loop of get_neighbours_and_vals from seed i on; acc is
\* zip(node_neighbours, vals) so far.  G.adj[node] raises KeyError for a node
\* that is not in the graph, G.nodes[n]["map_val"] for a node without the
\* attribute.
RECURSIVE NeighboursLoop(_, _, _, _)
NeighboursLoop(g, ns, i, acc) ==
    IF i > Len(ns) THEN [status |-> "ok", map |-> DictUpdate(<<>>, acc)]
    ELSE IF ~HasNode(g, ns[i]) THEN [status |-> "KeyError", map |-> <<>>]
    ELSE IF \E j \in 1..Len(g.adj[ns[i]]) : g.val[g.adj[ns[i]][j]] = Unbound
         THEN [status |-> "KeyError", map |-> <<>>]
    ELSE NeighboursLoop(g, ns, i + 1, acc \o AdjPairs(g, ns[i]))

get_neighbours_and_vals(g, ns) == NeighboursLoop(g, ns, 1, <<>>)

RECURSIVE MultiLoop(_, _, _, _)
MultiLoop(g, ns, i, neighbourhood) ==
    IF i = 0 THEN [status |-> "ok", map |-> neighbourhood]
    ELSE LET neighbours == get_neighbours_and_vals(g, ns)
         IN  IF neighbours.status # "ok" THEN neighbours
             ELSE MultiLoop(g, ns, i - 1, DictUpdate(neighbourhood, neighbours.map))

get_multi_neighbours_and_vals(g, ns, neighbourhood_size) ==
    MultiLoop(g, ns, neighbourhood_size, <<>>)

-----------------------------------------------------------------------------
(* Region operations. *)

\* the module global label_coords: no statement of the module binds the name
label_coords == [bound |-> FALSE, set |-> {}]

\* is_node_on_region_border reads the global label_coords, not its parameter
\* region_nodes; reading an unbound global raises NameError
is_node_on_region_border(g, region_nodes, node) ==
    LET neighbours == get_neighbours_and_vals(g, <<node>>)
    IN  IF neighbours.status # "ok" THEN [status |-> neighbours.status, val |-> FALSE]
        ELSE IF ~label_coords.bound THEN [status |-> "NameError", val |-> FALSE]
        ELSE LET total_neighbours == Cardinality(Keys(neighbours.map))
                 n_nodes_in_region == Cardinality(Keys(neighbours.map) \cap label_coords.set)
             IN  [status |-> "ok", val |-> n_nodes_in_region < total_neighbours]

RECURSIVE BorderLoop(_, _, _, _)
BorderLoop(g, ns, i, border_nodes) ==
    IF i > Len(ns) THEN [status |-> "ok", list |-> border_nodes]
    ELSE LET b == is_node_on_region_border(g, ns, ns[i])
         IN  IF b.status # "ok" THEN [status |-> b.status, list |-> <<>>]
             ELSE BorderLoop(g, ns, i + 1,
                             IF b.val THEN Append(border_nodes, ns[i]) ELSE border_nodes)

find_region_border(g, ns) == BorderLoop(g, ns, 1, <<>>)

\* an expansion that forgets to drop the nan neighbours
NotNanKeys_all(d) == KeyList(d)

\* [k for k, v in neighbours.items() if not np.isnan(v)]
RECURSIVE NotNanKeys(_)
NotNanKeys(d) ==
    IF d = <<>> THEN <<>>
    ELSE (IF isnan(d[1][2]) THEN <<>> ELSE <<d[1][1]>>) \o NotNanKeys(Tail(d))

\* the loop of expand_nodes with i iterations to go; cur is the content of the
\* list object nodes, which "nodes += neighbours" extends in place
RECURSIVE ExpandLoop(_, _, _, _)
ExpandLoop(g, cur, i, ignore_nans) ==
    IF i <= 0 THEN [status |-> "ok", nodes |-> cur]
    ELSE LET neighbours == get_neighbours_and_vals(g, cur)
         IN  IF neighbours.status # "ok"
             THEN [status |-> neighbours.status, nodes |-> cur]
             ELSE ExpandLoop(g,
                             cur \o (IF ignore_nans THEN NotNanKeys(neighbours.map)
                                     ELSE KeyList(neighbours.map)),
                             i - 1, ignore_nans)

\* list(set(nodes) - set(orig_nodes)); a set of small ints lists in ascending
\* order
NewNodes(cur, orig_nodes) == SortedList(Range(cur) \ Range(orig_nodes))

\* nodes: the list object after the call, which is both the caller's argument
\* and the first element of the returned pair
expand_nodes(g, ns, stepsize, ignore_nans) ==
    LET orig_nodes == ns
        r == ExpandLoop(g, ns, stepsize, ignore_nans)
    IN  [status |-> r.status,
         nodes |-> r.nodes,
         new_nodes |-> IF r.status = "ok" THEN NewNodes(r.nodes, orig_nodes) ELSE <<>>]

-----------------------------------------------------------------------------
(* Gradient ascent. *)

\* max(items, key=...): the first item is the candidate, and a later item
\* replaces it only when its key compares greater; keys[i] is the key of
\* items[i]
RECURSIVE MaxLoop(_, _, _)
MaxLoop(keys, i, best) ==
    IF i > Len(keys) THEN best
    ELSE MaxLoop(keys, i + 1, IF FloatGt(keys[i], keys[best]) THEN i ELSE best)

PyMax(items, keys) == items[MaxLoop(keys, 2, 1)]

\* (max(neighbours, key=neighbours.get), max(neighbours.values()));
\* max() of an empty dict raises ValueError
max_neighbour(g, node, neighbourhood_size) ==
    LET neighbours == get_multi_neighbours_and_vals(g, <<node>>, neighbourhood_size)
    IN  IF neighbours.status # "ok"
        THEN [status |-> neighbours.status, key |-> 0, val |-> NaN]
        ELSE IF neighbours.map = <<>>
        THEN [status |-> "ValueError", key |-> 0, val |-> NaN]
        ELSE [status |-> "ok",
              key |-> PyMax(KeyList(neighbours.map), ValueList(neighbours.map)),
              val |-> PyMax(ValueList(neighbours.map), ValueList(neighbours.map))]

\* "if not nodes: nodes = G.nodes()", then G.nodes[i][key] for every i
get_node_attributes_as_list(g, ns) ==
    LET which == IF ns = <<>> THEN g.nodes ELSE ns
    IN  IF \E i \in 1..Len(which) : ~HasNode(g, which[i]) \/ g.val[which[i]] = Unbound
        THEN [status |-> "KeyError", list |-> <<>>]
        ELSE [status |-> "ok", list |-> [i \in 1..Len(which) |-> g.val[which[i]]]]

\* a step that also moves to a neighbour of equal value
RECURSIVE GradientLoop_le(_, _, _, _, _, _)
GradientLoop_le(g, ns, map_values, stepsize, i, new_positions) ==
    IF i > Len(ns) \/ i > Len(map_values) THEN [status |-> "ok", list |-> new_positions]
    ELSE LET max_info == max_neighbour(g, ns[i], stepsize)
         IN  IF max_info.status # "ok" THEN [status |-> max_info.status, list |-> <<>>]
             ELSE GradientLoop_le(g, ns, map_values, stepsize, i + 1,
                      Append(new_positions,
                             IF ~FloatGt(map_values[i], max_info.val)
                             THEN max_info.key ELSE ns[i]))

RECURSIVE GradientLoop(_, _, _, _, _, _)
GradientLoop(g, ns, map_values, stepsize, i, new_positions) ==
    IF i > Len(ns) \/ i > Len(map_values) THEN [status |-> "ok", list |-> new_positions]
    ELSE LET max_info == max_neighbour(g, ns[i], stepsize)
         IN  IF max_info.status # "ok" THEN [status |-> max_info.status, list |-> <<>>]
             ELSE GradientLoop(g, ns, map_values, stepsize, i + 1,
                      Append(new_positions,
                             IF FloatLt(map_values[i], max_info.val)
                             THEN max_info.key ELSE ns[i]))

nodes_gradient_step(g, ns, stepsize) ==
    LET map_values == get_node_attributes_as_list(g, ns)
    IN  IF map_values.status # "ok" THEN [status |-> map_values.status, list |-> <<>>]
        ELSE GradientLoop(g, ns, map_values.list, stepsize, 1, <<>>)

-----------------------------------------------------------------------------
(* Smoothing. *)

\* np.nanmean(values): the mean of the values that are not nan, and nan (with
\* a warning, not an exception) when there is none
RECURSIVE NanSum(_)
NanSum(vs) ==
    IF vs = <<>> THEN [n |-> 0, d |-> 1, count |-> 0]
    ELSE LET r == NanSum(Tail(vs))
             v == Head(vs)
         IN  IF isnan(v) THEN r
             ELSE [n |-> v.n * r.d + r.n * v.d, d |-> v.d * r.d, count |-> r.count + 1]

nanmean(vs) ==
    LET r == NanSum(vs)
    IN  IF r.count = 0 THEN NaN ELSE Frac(r.n, r.d * r.count)

\* nx.set_node_attributes(G, values): a key that is not a node is skipped
RECURSIVE set_node_attributes(_, _)
set_node_attributes(g, values) ==
    IF values = <<>> THEN g
    ELSE set_node_attributes(
             IF HasNode(g, values[1][1]) THEN [g EXCEPT !.val[values[1][1]] = values[1][2]]
             ELSE g,
             Tail(values))

\* a pass that writes every mean to g_smooth as soon as it is computed
RECURSIVE SmoothNodes_inplace(_, _, _, _, _)
SmoothNodes_inplace(g_smooth, ns, kernel_size, i, color_map_dict) ==
    IF i > Len(ns) THEN [status |-> "ok", graph |-> g_smooth]
    ELSE LET out == get_multi_neighbours_and_vals(g_smooth, <<ns[i]>>, kernel_size)
         IN  IF out.status # "ok" THEN [status |-> out.status, graph |-> g_smooth]
             ELSE SmoothNodes_inplace(
                      set_node_attributes(g_smooth,
                                          <<<<ns[i], nanmean(ValueList(out.map))>>>>),
                      ns, kernel_size, i + 1, color_map_dict)

\* one iteration of the loop over it: every mean is read from g_smooth and
\* staged in color_map_dict, and the dict is written to g_smooth after the
\* loop over the nodes
RECURSIVE SmoothNodes(_, _, _, _, _)
SmoothNodes(g_smooth, ns, kernel_size, i, color_map_dict) ==
    IF i > Len(ns)
    THEN [status |-> "ok", graph |-> set_node_attributes(g_smooth, color_map_dict)]
    ELSE LET out == get_multi_neighbours_and_vals(g_smooth, <<ns[i]>>, kernel_size)
         IN  IF out.status # "ok" THEN [status |-> out.status, graph |-> g_smooth]
             ELSE SmoothNodes(g_smooth, ns, kernel_size, i + 1,
                              DictSet(color_map_dict, ns[i], nanmean(ValueList(out.map))))

SmoothPass(g_smooth, ns, kernel_size) == SmoothNodes(g_smooth, ns, kernel_size, 1, <<>>)

RECURSIVE SmoothLoop(_, _, _, _)
SmoothLoop(g_smooth, ns, n_its, kernel_size) ==
    IF n_its <= 0 THEN [status |-> "ok", graph |-> g_smooth]
    ELSE LET r == SmoothPass(g_smooth, ns, kernel_size)
         IN  IF r.status # "ok" THEN r
             ELSE SmoothLoop(r.graph, ns, n_its - 1, kernel_size)

\* a smoothing that works on G itself: G_smooth = G
InputAfterAlias(g, g_smooth) == g_smooth

\* the input graph after the call: G.copy() gives G_smooth node and attribute
\* dicts of its own, so no write to G_smooth reaches G
InputAfterCopy(g, g_smooth) == g

\* is_list: isinstance(nodes, list); otherwise the targets are G.nodes().
\* input: the graph object G after the call; graph: the returned G_smooth
smooth_graph(g, ns, is_list, n_its, kernel_size) ==
    LET targets == IF is_list THEN ns ELSE g.nodes
        r == SmoothLoop(g, targets, n_its, kernel_size)
    IN  [status |-> r.status,
         input |-> InputAfterCopy(g, r.graph),
         graph |-> IF r.status = "ok" THEN r.graph ELSE EmptyGraph]

-----------------------------------------------------------------------------
(* The state: the graph object G of the caller, the caller's node list      *)
(* object nodes, and the last call: its name op, its arguments arg as they  *)
(* were passed, how it ended (status) and what it returned (ret).           *)
(* A behaviour is surf_and_map_to_graph (the graph built from a face table, *)
(* then a map bound to it) followed by one call on the graph; the functions *)
(* keep no state of their own from one call to the next.                    *)

\* a face row lists distinct vertices
FaceRows ==
    {r \in SeqsUpTo(Vertices, 3) :
        Len(r) \in RowLens /\ \A i, j \in 1..Len(r) : i # j => r[i] # r[j]}
FaceTables == SeqsUpTo(FaceRows, MaxRows)
NodeLists == SeqsUpTo(Vertices, MaxLen)

NoArg == [faces |-> <<>>, nodes |-> <<>>, node |-> 0, k |-> 0, its |-> 0, flag |-> FALSE]
NoRet == [list |-> <<>>, new |-> <<>>, map |-> <<>>, key |-> 0, val |-> NaN,
          graph |-> EmptyGraph]

Init ==
    /\ G = EmptyGraph
    /\ nodes = <<>>
    /\ op = "init"
    /\ arg = NoArg
    /\ status = "ok"
    /\ ret = NoRet

\* surf_and_map_to_graph has returned the graph
Built == op = "add_map_to_surface"

\* surf_and_map_to_graph, first half
Call_nifti_to_graph ==
    /\ op = "init"
    /\ \E mesh_faces \in FaceTables :
        /\ G' = nifti_to_graph(mesh_faces, load_surface_info(mesh_faces))
        /\ arg' = [NoArg EXCEPT !.faces = mesh_faces]
    /\ op' = "nifti_to_graph"
    /\ UNCHANGED <<nodes, status, ret>>

\* surf_and_map_to_graph, second half
Call_add_map_to_surface ==
    /\ op = "nifti_to_graph"
    /\ \E map_data \in [Vertices -> MapVals] :
        G' = add_map_to_surface(G, G.nodes, map_data)
    /\ op' = "add_map_to_surface"
    /\ arg' = NoArg
    /\ UNCHANGED <<nodes, status, ret>>

Call_get_neighbours_and_vals ==
    /\ Built
    /\ \/ \E ns \in NodeLists :
            /\ arg' = [NoArg EXCEPT !.nodes = ns]
            /\ nodes' = ns
          \* isinstance(nodes, int): nodes = [nodes]
       \/ \E n \in Vertices :
            /\ arg' = [NoArg EXCEPT !.nodes = <<n>>, !.node = n, !.flag = TRUE]
            /\ nodes' = nodes
    /\ LET r == get_neighbours_and_vals(G, arg'.nodes)
       IN  /\ status' = r.status
           /\ ret' = [NoRet EXCEPT !.map = r.map]
    /\ op' = "get_neighbours_and_vals"
    /\ UNCHANGED G

Call_find_region_border ==
    /\ Built
    /\ \E ns \in NodeLists :
        LET r == find_region_border(G, ns)
        IN  /\ arg' = [NoArg EXCEPT !.nodes = ns]
            /\ nodes' = ns
            /\ status' = r.status
            /\ ret' = [NoRet EXCEPT !.list = r.list]
    /\ op' = "find_region_border"
    /\ UNCHANGED G

Call_expand_nodes ==
    /\ Built
    /\ \E ns \in NodeLists, stepsize \in 0..MaxStep, ignore_nans \in BOOLEAN :
        LET r == expand_nodes(G, ns, stepsize, ignore_nans)
        IN  /\ arg' = [NoArg EXCEPT !.nodes = ns, !.k = stepsize, !.flag = ignore_nans]
            /\ nodes' = r.nodes
            /\ status' = r.status
            /\ ret' = IF r.status = "ok"
                      THEN [NoRet EXCEPT !.list = r.nodes, !.new = r.new_nodes]
                      ELSE NoRet
    /\ op' = "expand_nodes"
    /\ UNCHANGED G

Call_max_neighbour ==
    /\ Built
    /\ \E node \in Vertices, neighbourhood_size \in 0..MaxStep :
        LET r == max_neighbour(G, node, neighbourhood_size)
        IN  /\ arg' = [NoArg EXCEPT !.node = node, !.k = neighbourhood_size]
            /\ status' = r.status
            /\ ret' = [NoRet EXCEPT !.key = r.key, !.val = r.val]
    /\ op' = "max_neighbour"
    /\ UNCHANGED <<G, nodes>>

Call_nodes_gradient_step ==
    /\ Built
    /\ \E ns \in NodeLists, stepsize \in 0..MaxStep :
        LET r == nodes_gradient_step(G, ns, stepsize)
        IN  /\ arg' = [NoArg EXCEPT !.nodes = ns, !.k = stepsize]
            /\ nodes' = ns
            /\ status' = r.status
            /\ ret' = [NoRet EXCEPT !.list = r.list]
    /\ op' = "nodes_gradient_step"
    /\ UNCHANGED G

\* arg.flag: nodes was passed as a list (otherwise it is None)
Call_smooth_graph ==
    /\ Built
    /\ \E ns \in NodeLists, is_list \in BOOLEAN, n_its \in 0..MaxIts,
          kernel_size \in 0..MaxKernel :
        /\ is_list \/ ns = <<>>
        /\ LET r == smooth_graph(G, ns, is_list, n_its, kernel_size)
           IN  /\ arg' = [NoArg EXCEPT !.nodes = ns, !.flag = is_list, !.its = n_its,
                                       !.k = kernel_size]
               /\ nodes' = ns
               /\ G' = r.input
               /\ status' = r.status
               /\ ret' = [NoRet EXCEPT !.graph = r.graph]
    /\ op' = "smooth_graph"

Build == Call_nifti_to_graph \/ Call_add_map_to_surface

Next ==
    \/ Build
    \/ Call_get_neighbours_and_vals
    \/ Call_find_region_border
    \/ Call_expand_nodes
    \/ Call_max_neighbour
    \/ Call_nodes_gradient_step
    \/ Call_smooth_graph

Spec == Init /\ [][Next]_vars

\* the region operations alone
NextRegion ==
    \/ Build
    \/ Call_get_neighbours_and_vals
    \/ Call_find_region_border
    \/ Call_expand_nodes

SpecRegion == Init /\ [][NextRegion]_vars

\* gradient ascent alone
NextAscent == Build \/ Call_max_neighbour \/ Call_nodes_gradient_step

SpecAscent == Init /\ [][NextAscent]_vars

\* smoothing alone
NextSmooth == Build \/ Call_smooth_graph

SpecSmooth == Init /\ [][NextSmooth]_vars

\* building and binding alone
SpecBuild == Init /\ [][Build]_vars

-----------------------------------------------------------------------------
(* Properties. *)

\* every node of g carries a map_val (which may be nan)
MapBound(g) == \A n \in NodeSet(g) : g.val[n] # Unbound

\* every node of g carries a real map_val
AllReal(g) == \A n \in NodeSet(g) : g.val[n].tag = "num"

Neighbours(g, n) == Range(g.adj[n])

NoDuplicates(s) == \A i, j \in 1..Len(s) : i # j => s[i] # s[j]

\* u and v stand together in some row of the face table
CoOccur(faces, u, v) ==
    \E r \in 1..Len(faces) : u \in Range(faces[r]) /\ v \in Range(faces[r])

\* C2: the graph built from a face table has exactly the vertices of the
\* table as nodes, and two distinct vertices are adjacent (each in the
\* other's adjacency, listed once) iff they stand together in some row.
C2_EdgesAreCoOccurrences ==
    op = "nifti_to_graph" =>
        /\ NodeSet(G) = UNION {Range(arg.faces[r]) : r \in 1..Len(arg.faces)}
        /\ NoDuplicates(G.nodes)
        /\ \A u \in NodeSet(G) :
            /\ NoDuplicates(G.adj[u])
            /\ u \notin Neighbours(G, u)
            /\ \A v \in Vertices \ {u} :
                /\ v \in Neighbours(G, u) <=> CoOccur(arg.faces, u, v)
                /\ v \in Neighbours(G, u) => v \in NodeSet(G) /\ u \in Neighbours(G, v)

\* a table of two rows that share a vertex and leave two vertices apart
C2_Witness ==
    /\ op = "nifti_to_graph"
    /\ Len(arg.faces) = 2
    /\ \E u, v \in NodeSet(G) : u # v /\ v \notin Neighbours(G, u)
    /\ \E u \in NodeSet(G) : Len(G.adj[u]) = 2

\* the sum of val over the nodes of S whose value is not nan, as n/d and the
\* number of terms
RECURSIVE RealSum(_, _)
RealSum(val, S) ==
    IF S = {} THEN [n |-> 0, d |-> 1, count |-> 0]
    ELSE LET m == CHOOSE x \in S : TRUE
             r == RealSum(val, S \ {m})
         IN  IF isnan(val[m]) THEN r
             ELSE [n |-> r.n * val[m].d + val[m].n * r.d, d |-> r.d * val[m].d,
                   count |-> r.count + 1]

RealMean(val, S) ==
    LET r == RealSum(val, S)
    IN  IF r.count = 0 THEN NaN ELSE Frac(r.n, r.d * r.count)

\* the values after its passes in which every target takes the mean of its
\* neighbours' values of the pass before
RECURSIVE PassValues(_, _, _, _)
PassValues(g, targets, its, kernel_size) ==
    IF its = 0 THEN g.val
    ELSE LET prev == PassValues(g, targets, its - 1, kernel_size)
         IN  [n \in NodeSet(g) |->
                 IF n \in targets
                 THEN RealMean(prev, IF kernel_size = 0 THEN {} ELSE Neighbours(g, n))
                 ELSE prev[n]]

Targets == IF arg.flag THEN arg.nodes ELSE G.nodes

Reverse(s) == [i \in 1..Len(s) |-> s[Len(s) + 1 - i]]

\* C3: the values smooth_graph returns are those of n_its passes, each of
\* which gives every target the mean of the non-missing neighbour values of
\* the pass before; visiting the targets in the opposite order returns the
\* same graph.
C3_PassReadsPreviousPass ==
    op = "smooth_graph" /\ status = "ok" =>
        /\ ret.graph.nodes = G.nodes
        /\ ret.graph.adj = G.adj
        /\ ret.graph.val = PassValues(G, Range(Targets), arg.its, arg.k)
        /\ smooth_graph(G, Reverse(Targets), TRUE, arg.its, arg.k).graph = ret.graph

\* two passes over two adjacent targets of different real value
C3_Witness ==
    /\ op = "smooth_graph" /\ status = "ok"
    /\ arg.its = 2 /\ arg.k = 1
    /\ \E u, v \in Range(Targets) :
        /\ v \in Neighbours(G, u)
        /\ FloatLt(G.val[u], G.val[v])
        /\ ret.graph.val[u] # G.val[u]

PathReach(g, S, k, ignore_nans) ==
    {m \in NodeSet(g) \ S :
        \E len \in 1..k : \E p \in [0..len -> NodeSet(g)] :
            /\ p[0] \in S
            /\ p[len] = m
            /\ \A i \in 1..len :
                /\ p[i] \in Neighbours(g, p[i - 1])
                /\ ignore_nans /\ p[i] \notin S => ~isnan(g.val[p[i]])}

\* C10: the new nodes expand_nodes returns are listed once each and are the
\* nodes outside the input list that a walk of at most stepsize edges from
\* the list reaches, with ignore_nans over non-missing nodes only.
C10_NewNodesAreReachable ==
    op = "expand_nodes" /\ status = "ok" =>
        /\ NoDuplicates(ret.new)
        /\ Range(ret.new) = PathReach(G, Range(arg.nodes), arg.k, arg.flag)
        /\ arg.k = 0 => ret.new = <<>>
        /\ arg.flag => \A i \in 1..Len(ret.new) : ~isnan(G.val[ret.new[i]])

\* two steps with ignore_nans from a list whose only way to a real-valued
\* node leads over a nan node
C10_Witness ==
    /\ op = "expand_nodes" /\ status = "ok"
    /\ arg.k = 2 /\ arg.flag /\ arg.nodes # <<>>
    /\ \E m \in PathReach(G, Range(arg.nodes), 2, FALSE) :
        /\ ~isnan(G.val[m])
        /\ m \notin Range(ret.new)

\* C1: find_region_border(G, R) returns, without raising, the nodes of R
\* that have a neighbour outside R.
C1_BorderOfPassedRegion ==
    (/\ op = "find_region_border"
     /\ MapBound(G)
     /\ Range(arg.nodes) \subseteq NodeSet(G)) =>
        /\ status = "ok"
        /\ Range(ret.list) =
            {n \in Range(arg.nodes) : \E m \in Neighbours(G, n) : m \notin Range(arg.nodes)}

\* C6: when a neighbour of the node has a real value, max_neighbour returns
\* a neighbour whose value is real and is the largest real value among the
\* neighbours.
C6_MissingNeverMaximum ==
    (/\ op = "max_neighbour"
     /\ arg.k >= 1
     /\ MapBound(G)
     /\ arg.node \in NodeSet(G)
     /\ \E x \in Neighbours(G, arg.node) : ~isnan(G.val[x])) =>
        /\ status = "ok"
        /\ ret.key \in Neighbours(G, arg.node)
        /\ ~isnan(ret.val)
        /\ G.val[ret.key] = ret.val
        /\ \A x \in Neighbours(G, arg.node) : ~FloatGt(G.val[x], ret.val)

\* the neighbourhood mapping of node n for hop count k is empty
EmptyNeighbourhood(g, n, k) == k = 0 \/ g.adj[n] = <<>>

\* C7: a node with an empty neighbourhood stays in place in
\* nodes_gradient_step and gets a missing value in smooth_graph, and neither
\* call raises.
C7_EmptyNeighbourhoodNoCrash ==
    /\ (/\ op = "nodes_gradient_step"
        /\ MapBound(G)
        /\ Range(arg.nodes) \subseteq NodeSet(G)
        /\ \E i \in 1..Len(arg.nodes) : EmptyNeighbourhood(G, arg.nodes[i], arg.k)) =>
            /\ status = "ok"
            /\ \A i \in 1..Len(arg.nodes) :
                EmptyNeighbourhood(G, arg.nodes[i], arg.k) => ret.list[i] = arg.nodes[i]
    /\ (/\ op = "smooth_graph"
        /\ MapBound(G)
        /\ arg.its >= 1
        /\ Range(Targets) \subseteq NodeSet(G)) =>
            /\ status = "ok"
            /\ \A n \in Range(Targets) :
                EmptyNeighbourhood(G, n, arg.k) => isnan(ret.graph.val[n])

\* C8: get_neighbours_and_vals does not raise, and returns what the seeds
\* that are nodes of the graph contribute: their neighbours, each with its
\* value.
C8_AbsentSeedsContributeNothing ==
    (op = "get_neighbours_and_vals" /\ MapBound(G)) =>
        /\ status = "ok"
        /\ Keys(ret.map) =
            UNION {Neighbours(G, n) : n \in Range(arg.nodes) \cap NodeSet(G)}
        /\ \A i \in 1..Len(ret.map) : ret.map[i][2] = G.val[ret.map[i][1]]

\* C9: a call of expand_nodes leaves the graph and the caller's list as they
\* were, so that the call repeated on the list the caller holds returns the
\* same result.
C9_ExpandIsPure ==
    [][op' = "expand_nodes" =>
        /\ G' = G
        /\ nodes' = arg'.nodes
        /\ expand_nodes(G', nodes', arg'.k, arg'.flag).new_nodes = ret'.new]_vars

=============================================================================
